---- MODULE Spec2Model ----
(***************************************************************************)
(* hasura-vote: the Auth component (react-web-app/src/Auth.js), the App    *)
(* component (react-web-app/src/App.js), the processSignUp cloud function  *)
(* and the loved_language table of the README.                             *)
(*                                                                         *)
(* Firebase user objects are numbered in the order signInWithPopup (or the *)
(* persisted session) creates them; each carries its uid and the id token  *)
(* it caches.  An id token is the pair (uid, claims): claims says whether  *)
(* the token carries the 'https://hasura.io/jwt/claims' custom claims.     *)
(* Every await of the source is a separate step, so that the handlers      *)
(* interleave as the JavaScript event loop lets them.                      *)
(***************************************************************************)
EXTENDS Integers, Sequences, FiniteSets, TLC

\* ---- bounds ----
MaxSignIns == 2      \* user objects created (persisted session included)
MaxVotes == 1        \* cap of a language's vote_count

Uids == {"u1", "u2"}
Langs == {"js"}

VARIABLES
    authState,      \* Auth: useState({status: 'loading'})
    authQueue,      \* onAuthStateChanged events not yet delivered
    callbacks,      \* onAuthStateChanged callbacks suspended at an await
    listeners,      \* user objects with a metadataRef.on('value') listener
    valueEvents,    \* 'value' events not yet delivered
    refreshes,      \* 'value' callbacks suspended at getIdToken(true)
    forced,         \* user objects on which getIdToken(true) was called
    signOutPc,      \* position of signOut()
    userObjs,       \* firebase User objects: uid, cached token, first token
    currentUser,    \* firebase.auth().currentUser (0 = null)
    customClaims,   \* uid -> custom claims set on the account
    refreshTime,    \* uid -> metadata/<uid>/refreshTime exists
    cf,             \* uid -> position of processSignUp
    app,            \* what the last render of App built
    sub,            \* the Subscription component's result
    lastRequest,    \* the last operation executed through the split link
    vote_count,     \* programming_language.vote_count by name
    loved_language, \* loved_language: (name, user_id) -> number of rows
    lastResponse,   \* the server's answer to the last mutation
    reachedIn       \* user objects setAuthState({status: 'in'}) was called with

vars == <<authState, authQueue, callbacks, listeners, valueEvents, refreshes,
          forced, signOutPc, userObjs, currentUser, customClaims,
          refreshTime, cf, app, sub, lastRequest, vote_count, loved_language,
          lastResponse, reachedIn>>

authVars == <<authQueue, callbacks, listeners, valueEvents, refreshes, forced,
              signOutPc, userObjs, currentUser, customClaims,
              refreshTime, cf>>
dbVars == <<vote_count, loved_language, lastResponse>>

\* ---- values ----
NoUser == 0
NoToken == [uid |-> "none", claims |-> FALSE]
Token(u, c) == [uid |-> u, claims |-> c]

\* ---- the GraphQL documents of App.js ----
PL_SUB ==
    [name |-> "PL", kind |-> "OperationDefinition", operation |-> "subscription"]
PL_WITH_LOVE_SUB ==
    [name |-> "PL_WITH_LOVE", kind |-> "OperationDefinition", operation |-> "subscription"]
VOTE_MUTATION ==
    [name |-> "Vote", kind |-> "OperationDefinition", operation |-> "mutation"]
LOVE_MUTATION ==
    [name |-> "Love", kind |-> "OperationDefinition", operation |-> "mutation"]
UNLOVE_MUTATION ==
    [name |-> "Unlove", kind |-> "OperationDefinition", operation |-> "mutation"]
NoDoc == [name |-> "none", kind |-> "none", operation |-> "none"]

\* ---- App: the pure parts of the render ----
\* const isIn = authState.status === 'in'
isIn(as) == as.status = "in"

headersAlways(as) == {<<"Authorization", as.token>>}
\* headers = isIn ? { Authorization: `Bearer ${authState.token}` } : {}
headers(as) == IF isIn(as) THEN {<<"Authorization", as.token>>} ELSE {}

\* connectionParams: { headers }
wsConnectionHeaders(as) == headers(as)

splitTestKindOnly(query) == query.kind = "OperationDefinition"
\* ({ query }) => kind === 'OperationDefinition' && operation === 'subscription'
splitTest(query) == query.kind = "OperationDefinition" /\ query.operation = "subscription"

\* split(test, wsLink, httpLink)
link(query) == IF splitTest(query) THEN "ws" ELSE "http"

subscriptionDocSwapped(as) == IF isIn(as) THEN PL_SUB ELSE PL_WITH_LOVE_SUB
\* subscription={isIn ? PL_WITH_LOVE_SUB : PL_SUB}
subscriptionDoc(as) == IF isIn(as) THEN PL_WITH_LOVE_SUB ELSE PL_SUB

\* variables={isIn ? { userId: authState.user.uid } : null}
subscriptionVariables(as) == IF isIn(as) THEN userObjs[as.user].uid ELSE "null"

Unmounted ==
    [mounted |-> FALSE, httpHeaders |-> {}, wsHeaders |-> {},
     subscription |-> NoDoc, variables |-> "null"]

\* Auth renders <App authState={authState} /> unless the status is 'loading'
RenderApp(as) ==
    IF as.status = "loading" THEN Unmounted
    ELSE [mounted |-> TRUE,
          httpHeaders |-> headers(as),
          wsHeaders |-> wsConnectionHeaders(as),
          subscription |-> subscriptionDoc(as),
          variables |-> subscriptionVariables(as)]

\* an operation executed by the client of render a: the link split() picks
\* and the headers that link was built with
Request(query, a) ==
    [doc |-> query.name,
     link |-> link(query),
     headers |-> IF link(query) = "ws" THEN a.wsHeaders ELSE a.httpHeaders]
NoRequest == [doc |-> "none", link |-> "none", headers |-> {}]

NoAggregate == -1
NoSub == [status |-> "none", rows |-> [l \in Langs |-> [vote_count |-> 0, count |-> NoAggregate]]]
Loading == [status |-> "loading", rows |-> NoSub.rows]
SubError == [status |-> "error", rows |-> NoSub.rows]

\* isLoved = pl.lovedLanguagesByname_aggregate.aggregate.count === 1
isLoved(pl) == pl.count = 1

contentAlways(in, pl) == IF isLoved(pl) THEN {"Unlove"} ELSE {"Love"}
\* let content = null; if (isIn) { ... Unlove ... } else { ... Love ... }
content(in, pl) ==
    IF in THEN (IF isLoved(pl) THEN {"Unlove"} ELSE {"Love"}) ELSE {}

\* the buttons of one <li>: Vote, then content
RowButtons(in, pl) == {"Vote"} \cup content(in, pl)

\* ---- Hasura ----
\* the session Hasura derives from the request headers
HasuraSession(hdrs) ==
    IF hdrs = {} THEN [role |-> "anonymous", userId |-> "none"]
    ELSE LET t == (CHOOSE h \in hdrs : h[1] = "Authorization")[2]
         IN  IF t.claims THEN [role |-> "user", userId |-> t.uid]
             ELSE [role |-> "rejected", userId |-> "none"]

InsertRowNoKey(t, r) == [t EXCEPT ![r] = @ + 1]
\* CONSTRAINT loved_language_pkey PRIMARY KEY (name, user_id)
InsertRow(t, r) == IF t[r] > 0 THEN t ELSE [t EXCEPT ![r] = 1]

\* delete_loved_language(where: { name: { _eq: $name } }) as role user; the
\* README does not say whether the role's delete permission filters on
\* user_id, so ownOnly is either
DeleteRows(t, name, userId, ownOnly) ==
    [r \in DOMAIN t |->
        IF r[1] = name /\ (ownOnly => r[2] = userId) THEN 0 ELSE t[r]]

\* what the server pushes for the subscription of render a
SubscriptionResult(a, votes, loved) ==
    LET s == HasuraSession(a.wsHeaders)
    IN  IF s.role = "rejected" THEN SubError
        ELSE IF a.subscription = PL_SUB
        THEN [status |-> "data",
              rows |-> [l \in Langs |-> [vote_count |-> votes[l], count |-> NoAggregate]]]
        ELSE IF s.role = "user"
        THEN [status |-> "data",
              rows |-> [l \in Langs |->
                  [vote_count |-> votes[l], count |-> loved[<<l, a.variables>>]]]]
        ELSE SubError

\* ---- Auth ----
\* data.exists: the DataSnapshot method itself, which the code does not call
SnapshotExists(e) == "function"

\* JavaScript truthiness of the values above
Truthy(v) == v \notin {"undefined", "null", "false"}

ReturnsEarlyInverted(e) == Truthy(SnapshotExists(e))
\* if (!data.exists) { return }
ReturnsEarly(e) == ~Truthy(SnapshotExists(e))

HasuraClaimNever(tok) == FALSE
\* hasuraClaim = idTokenResult.claims['https://hasura.io/jwt/claims']
HasuraClaim(tok) == tok.claims

\* setAuthState(as): the component re-renders; a mounted App builds a new
\* client and its Subscription starts over
SetAuthState(as) ==
    /\ authState' = as
    /\ app' = RenderApp(as)
    /\ sub' = IF as.status = "loading" THEN NoSub ELSE Loading
    /\ lastRequest' = IF as.status = "loading" THEN lastRequest
                      ELSE Request(subscriptionDoc(as), RenderApp(as))
    /\ reachedIn' = IF as.status = "in" THEN reachedIn \cup {as.user}
                    ELSE reachedIn

UidOf(o) == userObjs[o].uid

InitWith(accounts) ==
    /\ authState = [status |-> "loading", user |-> NoUser, token |-> NoToken]
    /\ callbacks = {}
    /\ listeners = {}
    /\ valueEvents = {}
    /\ refreshes = {}
    /\ forced = {}
    /\ signOutPc = "idle"
    /\ \E existing \in accounts :
        /\ customClaims = [u \in Uids |-> u \in existing]
        /\ refreshTime = [u \in Uids |-> u \in existing]
        /\ cf = [u \in Uids |-> IF u \in existing THEN "done" ELSE "none"]
        /\ \/ /\ userObjs = <<>>
              /\ currentUser = NoUser
              /\ authQueue = <<NoUser>>
           \/ \E u \in existing :
              /\ userObjs = <<[uid |-> u, token |-> Token(u, TRUE), first |-> TRUE]>>
              /\ currentUser = 1
              /\ authQueue = <<1>>
    /\ app = Unmounted
    /\ sub = NoSub
    /\ lastRequest = NoRequest
    /\ vote_count = [l \in Langs |-> 0]
    /\ loved_language = [r \in Langs \X Uids |-> 0]
    /\ lastResponse = "none"
    /\ reachedIn = {}

\* u1 has never signed in; u2 may be a returning account
Init == InitWith({{}, {"u2"}})

\* onAuthStateChanged(async user => { if (user) { ... await user.getIdToken()
AuthCallbackUser ==
    /\ authQueue # <<>>
    /\ Head(authQueue) # NoUser
    /\ authQueue' = Tail(authQueue)
    /\ callbacks' = callbacks \cup
           {[user |-> Head(authQueue), pc |-> "getIdToken", token |-> NoToken]}
    /\ UNCHANGED <<reachedIn, authState, app, sub, lastRequest, listeners, valueEvents,
                   refreshes, forced, signOutPc, userObjs, currentUser,
                   customClaims, refreshTime, cf, dbVars>>

\* onAuthStateChanged(async user => { ... else { setAuthState({ status: 'out' }) }
AuthCallbackNull ==
    /\ authQueue # <<>>
    /\ Head(authQueue) = NoUser
    /\ authQueue' = Tail(authQueue)
    /\ SetAuthState([status |-> "out", user |-> NoUser, token |-> NoToken])
    /\ UNCHANGED <<callbacks, listeners, valueEvents, refreshes, forced,
                   signOutPc, userObjs, currentUser, customClaims, refreshTime,
                   cf, dbVars>>

\* const token = await user.getIdToken()   (resumes with the cached token)
GetIdTokenDone(c) ==
    /\ c \in callbacks
    /\ c.pc = "getIdToken"
    /\ callbacks' = (callbacks \ {c}) \cup
           {[c EXCEPT !.pc = "getIdTokenResult", !.token = userObjs[c.user].token]}
    /\ UNCHANGED <<reachedIn, authState, app, sub, lastRequest, authQueue, listeners,
                   valueEvents, refreshes, forced, signOutPc, userObjs,
                   currentUser, customClaims, refreshTime, cf, dbVars>>

\* const idTokenResult = await user.getIdTokenResult(); if (hasuraClaim) {
\*   setAuthState({ status: 'in', user, token }) }
GetIdTokenResultIn(c) ==
    /\ c \in callbacks
    /\ c.pc = "getIdTokenResult"
    /\ HasuraClaim(userObjs[c.user].token)
    /\ callbacks' = callbacks \ {c}
    /\ SetAuthState([status |-> "in", user |-> c.user, token |-> c.token])
    /\ UNCHANGED <<authQueue, listeners, valueEvents, refreshes, forced,
                   signOutPc, userObjs, currentUser, customClaims, refreshTime,
                   cf, dbVars>>

\* ... else { metadataRef.on('value', async data => { ... }) }
\* the listener fires at once with the current value of the path
GetIdTokenResultListen(c) ==
    /\ c \in callbacks
    /\ c.pc = "getIdTokenResult"
    /\ ~HasuraClaim(userObjs[c.user].token)
    /\ callbacks' = callbacks \ {c}
    /\ listeners' = listeners \cup {c.user}
    /\ valueEvents' = valueEvents \cup
           {[user |-> c.user, exists |-> refreshTime[UidOf(c.user)]]}
    /\ UNCHANGED <<reachedIn, authState, app, sub, lastRequest, authQueue, refreshes,
                   forced, signOutPc, userObjs, currentUser, customClaims,
                   refreshTime, cf, dbVars>>

\* async data => { if (!data.exists) { return }
\*   const token = await user.getIdToken(true)
ValueCallback(e) ==
    /\ e \in valueEvents
    /\ valueEvents' = valueEvents \ {e}
    /\ IF ReturnsEarly(e)
       THEN UNCHANGED <<refreshes, forced, userObjs>>
       ELSE LET t == Token(UidOf(e.user), customClaims[UidOf(e.user)])
            IN  /\ refreshes' = refreshes \cup {[user |-> e.user, token |-> t]}
                /\ forced' = forced \cup {e.user}
                /\ userObjs' = [userObjs EXCEPT ![e.user].token = t]
    /\ UNCHANGED <<reachedIn, authState, app, sub, lastRequest, authQueue, callbacks,
                   listeners, signOutPc, currentUser, customClaims,
                   refreshTime, cf, dbVars>>

\* ... setAuthState({ status: 'in', user, token }) }
ValueResume(r) ==
    /\ r \in refreshes
    /\ refreshes' = refreshes \ {r}
    /\ SetAuthState([status |-> "in", user |-> r.user, token |-> r.token])
    /\ UNCHANGED <<authQueue, callbacks, listeners, valueEvents, forced,
                   signOutPc, userObjs, currentUser, customClaims, refreshTime,
                   cf, dbVars>>

\* signInWithGoogle: await firebase.auth().signInWithPopup(provider)
\* the button is rendered when the status is neither 'loading' nor 'in';
\* an account signing in for the first time is created, which triggers
\* processSignUp
signInWithGoogle(u) ==
    /\ authState.status = "out"
    /\ Len(userObjs) < MaxSignIns
    /\ userObjs' = Append(userObjs,
           [uid |-> u, token |-> Token(u, customClaims[u]),
            first |-> customClaims[u]])
    /\ currentUser' = Len(userObjs) + 1
    /\ authQueue' = Append(authQueue, Len(userObjs) + 1)
    /\ cf' = IF cf[u] = "none" THEN [cf EXCEPT ![u] = "pending"] ELSE cf
    /\ UNCHANGED <<reachedIn, authState, app, sub, lastRequest, callbacks, listeners,
                   valueEvents, refreshes, forced, signOutPc, customClaims,
                   refreshTime, dbVars>>

\* signOut: setAuthState({ status: 'loading' }); await firebase.auth().signOut()
signOutClick ==
    /\ authState.status = "in"
    /\ signOutPc = "idle"
    /\ signOutPc' = "signOut"
    /\ SetAuthState([status |-> "loading", user |-> NoUser, token |-> NoToken])
    /\ UNCHANGED <<authQueue, callbacks, listeners, valueEvents, refreshes,
                   forced, userObjs, currentUser, customClaims, refreshTime,
                   cf, dbVars>>

\* firebase.auth().signOut() completes: currentUser becomes null and the
\* observers are told
signOutFirebase ==
    /\ signOutPc = "signOut"
    /\ signOutPc' = "resume"
    /\ currentUser' = NoUser
    /\ authQueue' = IF currentUser # NoUser THEN Append(authQueue, NoUser)
                    ELSE authQueue
    /\ UNCHANGED <<reachedIn, authState, app, sub, lastRequest, callbacks, listeners,
                   valueEvents, refreshes, forced, userObjs, customClaims,
                   refreshTime, cf, dbVars>>

\* signOut: ... setAuthState({ status: 'out' })
signOutResume ==
    /\ signOutPc = "resume"
    /\ signOutPc' = "idle"
    /\ SetAuthState([status |-> "out", user |-> NoUser, token |-> NoToken])
    /\ UNCHANGED <<authQueue, callbacks, listeners, valueEvents, refreshes,
                   forced, userObjs, currentUser, customClaims, refreshTime,
                   cf, dbVars>>

\* processSignUp: admin.auth().setCustomUserClaims(user.uid, customClaims)
processSignUpSetClaims(u) ==
    /\ cf[u] = "pending"
    /\ customClaims' = [customClaims EXCEPT ![u] = TRUE]
    /\ cf' = [cf EXCEPT ![u] = "claimsSet"]
    /\ UNCHANGED <<reachedIn, authState, app, sub, lastRequest, authQueue, callbacks,
                   listeners, valueEvents, refreshes, forced, signOutPc,
                   userObjs, currentUser, refreshTime, dbVars>>

\* processSignUp: .then(() => metadataRef.set({ refreshTime: ... }))
\* every listener on metadata/<uid>/refreshTime gets a 'value' event
processSignUpSetRefreshTime(u) ==
    /\ cf[u] = "claimsSet"
    /\ refreshTime' = [refreshTime EXCEPT ![u] = TRUE]
    /\ cf' = [cf EXCEPT ![u] = "done"]
    /\ valueEvents' = valueEvents \cup
           {[user |-> o, exists |-> TRUE] : o \in {x \in listeners : UidOf(x) = u}}
    /\ UNCHANGED <<reachedIn, authState, app, sub, lastRequest, authQueue, callbacks,
                   listeners, refreshes, forced, signOutPc, userObjs,
                   currentUser, customClaims, dbVars>>

\* processSignUp: .catch(error => { console.log(error) })
processSignUpCatch(u) ==
    /\ cf[u] \in {"pending", "claimsSet"}
    /\ cf' = [cf EXCEPT ![u] = "failed"]
    /\ UNCHANGED <<reachedIn, authState, app, sub, lastRequest, authQueue, callbacks,
                   listeners, valueEvents, refreshes, forced, signOutPc,
                   userObjs, currentUser, customClaims, refreshTime, dbVars>>

\* ---- App ----
\* the Subscription's render prop receives the server's current result
SubscriptionData ==
    /\ app.mounted
    /\ sub' = SubscriptionResult(app, vote_count, loved_language)
    /\ sub' # sub
    /\ UNCHANGED <<reachedIn, authState, app, lastRequest, authVars, dbVars>>

Buttons(l) == RowButtons(isIn(authState), sub.rows[l])

\* <Mutation mutation={VOTE_MUTATION} variables={{ name }}> clicked
Vote(name) ==
    /\ sub.status = "data"
    /\ "Vote" \in Buttons(name)
    /\ vote_count[name] < MaxVotes
    /\ lastRequest' = Request(VOTE_MUTATION, app)
    /\ LET ok == HasuraSession(lastRequest'.headers).role \in {"anonymous", "user"}
       IN  /\ vote_count' = IF ok THEN [vote_count EXCEPT ![name] = @ + 1]
                            ELSE vote_count
           /\ lastResponse' = IF ok THEN "ok" ELSE "denied"
    /\ UNCHANGED <<reachedIn, authState, app, sub, authVars, loved_language>>

\* <Mutation mutation={LOVE_MUTATION} variables={{ name }}> clicked
Love(name) ==
    /\ sub.status = "data"
    /\ "Love" \in Buttons(name)
    /\ lastRequest' = Request(LOVE_MUTATION, app)
    /\ LET s == HasuraSession(lastRequest'.headers)
       IN  /\ loved_language' =
                 IF s.role = "user"
                 THEN InsertRow(loved_language, <<name, s.userId>>)
                 ELSE loved_language
           /\ lastResponse' =
                 IF s.role # "user" THEN "denied"
                 ELSE IF loved_language' = loved_language THEN "constraint-violation"
                 ELSE "ok"
    /\ UNCHANGED <<reachedIn, authState, app, sub, authVars, vote_count>>

\* <Mutation mutation={UNLOVE_MUTATION} variables={{ name }}> clicked
Unlove(name) ==
    /\ sub.status = "data"
    /\ "Unlove" \in Buttons(name)
    /\ lastRequest' = Request(UNLOVE_MUTATION, app)
    /\ LET s == HasuraSession(lastRequest'.headers)
       IN  /\ \E ownOnly \in BOOLEAN :
                 loved_language' =
                    IF s.role = "user"
                    THEN DeleteRows(loved_language, name, s.userId, ownOnly)
                    ELSE loved_language
           /\ lastResponse' = IF s.role = "user" THEN "ok" ELSE "denied"
    /\ UNCHANGED <<reachedIn, authState, app, sub, authVars, vote_count>>

\* Auth, the cloud function and the render of App
Next ==
    \/ AuthCallbackUser
    \/ AuthCallbackNull
    \/ \E c \in callbacks : GetIdTokenDone(c)
    \/ \E c \in callbacks : GetIdTokenResultIn(c)
    \/ \E c \in callbacks : GetIdTokenResultListen(c)
    \/ \E e \in valueEvents : ValueCallback(e)
    \/ \E r \in refreshes : ValueResume(r)
    \/ \E u \in Uids : signInWithGoogle(u)
    \/ signOutClick
    \/ signOutFirebase
    \/ signOutResume
    \/ \E u \in Uids : processSignUpSetClaims(u)
    \/ \E u \in Uids : processSignUpSetRefreshTime(u)
    \/ \E u \in Uids : processSignUpCatch(u)

Spec == Init /\ [][Next]_vars

\* the event loop runs every ready callback and every Firebase call
\* completes; clicks and the cloud function are not forced
Fairness ==
    /\ WF_vars(AuthCallbackUser)
    /\ WF_vars(AuthCallbackNull)
    /\ WF_vars(\E c \in callbacks : GetIdTokenDone(c))
    /\ WF_vars(\E c \in callbacks : GetIdTokenResultIn(c))
    /\ WF_vars(\E c \in callbacks : GetIdTokenResultListen(c))
    /\ WF_vars(\E e \in valueEvents : ValueCallback(e))
    /\ WF_vars(\E r \in refreshes : ValueResume(r))

LiveSpec == Spec /\ Fairness

\* App used by accounts that all carry their custom claims already
InitApp == InitWith({Uids})

NextApp ==
    \/ AuthCallbackUser
    \/ AuthCallbackNull
    \/ \E c \in callbacks : GetIdTokenDone(c)
    \/ \E c \in callbacks : GetIdTokenResultIn(c)
    \/ \E u \in Uids : signInWithGoogle(u)
    \/ signOutClick
    \/ signOutFirebase
    \/ signOutResume
    \/ SubscriptionData
    \/ \E l \in Langs : Vote(l)
    \/ \E l \in Langs : Love(l)
    \/ \E l \in Langs : Unlove(l)

SpecApp == InitApp /\ [][NextApp]_vars

\* ---- claims ----
Objs == 1..Len(userObjs)
Docs == {PL_SUB, PL_WITH_LOVE_SUB, VOTE_MUTATION, LOVE_MUTATION, UNLOVE_MUTATION}

\* C1: whenever authState.status is 'in', the token of authState carries the
\* 'https://hasura.io/jwt/claims' custom claims.
C1_InTokenCarriesClaims ==
    authState.status = "in" => authState.token.claims

\* C2: an operation is routed to the WebSocket link if and only if its main
\* definition is an OperationDefinition whose operation is 'subscription';
\* Vote, Love and Unlove go to the HTTP link; every operation goes to exactly
\* one of the two links.
C2_SplitRouting ==
    lastRequest # NoRequest =>
        /\ lastRequest.link \in {"ws", "http"}
        /\ \A d \in Docs : lastRequest.doc = d.name =>
              /\ lastRequest.link = "ws" <=>
                    (d.kind = "OperationDefinition" /\ d.operation = "subscription")
              /\ lastRequest.link = "http" <=>
                    ~(d.kind = "OperationDefinition" /\ d.operation = "subscription")
        /\ lastRequest.doc \in {"Vote", "Love", "Unlove"} => lastRequest.link = "http"
        /\ lastRequest.doc \in {"PL", "PL_WITH_LOVE"} => lastRequest.link = "ws"

C2_Witness ==
    /\ lastRequest.doc = "Love"
    /\ lastRequest.link = "http"
    /\ sub.status = "data"

\* C3: every delivered row has a Vote button, signed in or not; Love or Unlove
\* is rendered only when the status is 'in', and then exactly one of them:
\* Unlove when the row's aggregate count is 1, Love otherwise.
C3_RowButtons ==
    sub.status = "data" =>
        \A l \in Langs :
            /\ "Vote" \in Buttons(l)
            /\ Buttons(l) \subseteq {"Vote", "Love", "Unlove"}
            /\ authState.status = "in" =>
                  /\ ("Unlove" \in Buttons(l)) <=> (sub.rows[l].count = 1)
                  /\ ("Love" \in Buttons(l)) <=> (sub.rows[l].count # 1)
            /\ authState.status # "in" =>
                  /\ "Love" \notin Buttons(l)
                  /\ "Unlove" \notin Buttons(l)

C3_Witness ==
    /\ sub.status = "data"
    /\ authState.status = "in"
    /\ \E l \in Langs : Buttons(l) = {"Vote", "Unlove"}

\* C4: App sends 'Authorization: Bearer <authState.token>' if and only if the
\* status is 'in', and no header otherwise; the HTTP link and the WebSocket
\* link's connectionParams carry the same headers.
C4_Headers ==
    app.mounted =>
        /\ authState.status = "in" =>
              app.httpHeaders = {<<"Authorization", authState.token>>}
        /\ authState.status # "in" => app.httpHeaders = {}
        /\ app.wsHeaders = app.httpHeaders
        /\ lastRequest.headers = app.httpHeaders

C4_Witness ==
    /\ app.mounted
    /\ authState.status = "in"
    /\ authState.token.claims
    /\ app.httpHeaders = {<<"Authorization", authState.token>>}
    /\ app.wsHeaders = app.httpHeaders

\* C5: App subscribes with PL_WITH_LOVE and {userId: authState.user.uid}
\* exactly when the status is 'in', and with PL and null variables otherwise.
C5_SubscriptionDocument ==
    app.mounted =>
        /\ authState.status = "in" =>
              /\ app.subscription = PL_WITH_LOVE_SUB
              /\ authState.user \in Objs
              /\ app.variables = userObjs[authState.user].uid
              /\ app.variables = authState.token.uid
        /\ authState.status # "in" =>
              /\ app.subscription = PL_SUB
              /\ app.variables = "null"

C5_Witness ==
    /\ app.mounted
    /\ authState.status = "in"
    /\ app.subscription = PL_WITH_LOVE_SUB
    /\ app.variables = "u1"

\* C6: a callback that completes for a user whose id token already carries
\* the Hasura claims sets {status: 'in', user, token} with that token, calls
\* no getIdToken(true) and registers no listener; such a user object never
\* gets a forced refresh or a listener.
C6_NoUselessRefresh ==
    /\ [](\A o \in Objs : userObjs[o].first => o \notin forced /\ o \notin listeners)
    /\ [][\A c \in callbacks :
            (c.pc = "getIdTokenResult" /\ userObjs[c.user].token.claims
                /\ c \notin callbacks')
            => /\ authState' = [status |-> "in", user |-> c.user, token |-> c.token]
               /\ c.token = userObjs[c.user].token
               /\ listeners' = listeners
               /\ valueEvents' = valueEvents
               /\ refreshes' = refreshes
               /\ forced' = forced
               /\ userObjs' = userObjs]_vars

C6_Witness ==
    /\ authState.status = "in"
    /\ authState.user \in Objs
    /\ userObjs[authState.user].first
    /\ authState.token = Token(userObjs[authState.user].uid, TRUE)
    /\ authState.user \notin forced
    /\ authState.user \notin listeners

C8_LovedAtMostOnce ==
    /\ \A r \in Langs \X Uids : loved_language[r] \in {0, 1}
    /\ (sub.status = "data" /\ authState.status = "in") =>
          \A l \in Langs : sub.rows[l].count \in {0, 1}

\* a Love repeated before the subscription updated the button
C8_Witness ==
    /\ lastRequest.doc = "Love"
    /\ lastResponse = "constraint-violation"
    /\ \E l \in Langs :
          /\ "Love" \in Buttons(l)
          /\ loved_language[<<l, authState.token.uid>>] = 1

====
